---- MODULE Spec2Model ----
(***************************************************************************)
(* Model of 01_superstore_analysis/notebooks/superstore_analysis.py: one   *)
(* batch run of the script.  The run is a straight line of five try        *)
(* blocks (load, preparation, KPIs, charts, dashboard); each block is one  *)
(* action.  Everything the run depends on and does not itself decide (the  *)
(* dataset file, the working directory, the console) is the record env,    *)
(* chosen in Init and never changed.                                       *)
(***************************************************************************)
EXTENDS Integers, Sequences, FiniteSets, TLC

VARIABLES
    env,        \* inputs of the run: file, table, directory, console
    pc,         \* the try block the run is about to enter
    df,         \* the DataFrame: [columns, rows]
    encoding,   \* the candidate encoding read_csv succeeded with
    tried,      \* the candidate encodings read_csv was called with, in order
    kpis,       \* the dict kpis, as its sequence of <<key, value>> items
    charts,     \* by_month, cat, reg: the chart tables the run computed
    cwd,        \* names of the *.html files in the working directory
    produced,   \* chart files written by this run, in the order written
    dashboard,  \* content this run wrote to dashboard_superstore.html
    stdout,     \* lines printed to the normal stream
    stderr,     \* diagnostics printed to sys.stderr
    entered,    \* the try blocks entered so far, in order
    divisors,   \* every divisor total_profit was divided by
    exit_status \* -1 while running, else the process exit status

vars == <<env, pc, df, encoding, tried, kpis, charts, cwd, produced,
          dashboard, stdout, stderr, entered, divisors, exit_status>>

(***************************************************************************)
(* Bounds of the model.                                                    *)
(***************************************************************************)
MaxBytes == 3     \* longest delimited-text file, in bytes
MaxGroups == 21   \* most (category, sub_category) groups in a generated table

(***************************************************************************)
(* Sequence helpers.                                                       *)
(***************************************************************************)
Range(s) == {s[i] : i \in 1..Len(s)}

Reverse(s) == [i \in 1..Len(s) |-> s[Len(s) + 1 - i]]

Rotate(s) == IF s = <<>> THEN s ELSE Tail(s) \o <<Head(s)>>

RECURSIVE SeqSum(_)
SeqSum(s) == IF s = <<>> THEN 0 ELSE Head(s) + SeqSum(Tail(s))

(***************************************************************************)
(* Loading (lines 14-38).                                                  *)
(***************************************************************************)
\* line 24: the candidate encodings, in the order the loop tries them
encodings == <<"utf-8", "latin1", "ISO-8859-1", "cp1252">>

\* line 20: the suffixes read with read_excel
ExcelSuffixes == {".xls", ".xlsx"}

IsCont(b) == b >= 128 /\ b <= 191

\* Python's strict utf-8 decoder: TRUE iff the bytes are well-formed UTF-8.
RECURSIVE Utf8Valid(_)
Utf8Valid(b) ==
    IF b = <<>> THEN TRUE
    ELSE LET h == Head(b)
             n == Len(b)
         IN  IF h <= 127 THEN Utf8Valid(Tail(b))
             ELSE IF h >= 194 /\ h <= 223
                  THEN n >= 2 /\ IsCont(b[2]) /\ Utf8Valid(SubSeq(b, 3, n))
             ELSE IF h >= 224 /\ h <= 239
                  THEN /\ n >= 3
                       /\ IsCont(b[2])
                       /\ IsCont(b[3])
                       /\ (h = 224 => b[2] >= 160)
                       /\ (h = 237 => b[2] <= 159)
                       /\ Utf8Valid(SubSeq(b, 4, n))
             ELSE IF h >= 240 /\ h <= 244
                  THEN /\ n >= 4
                       /\ IsCont(b[2])
                       /\ IsCont(b[3])
                       /\ IsCont(b[4])
                       /\ (h = 240 => b[2] >= 144)
                       /\ (h = 244 => b[2] <= 143)
                       /\ Utf8Valid(SubSeq(b, 5, n))
             ELSE FALSE

\* the five byte values Python's cp1252 codec leaves undefined
Cp1252Undefined == {129, 141, 143, 144, 157}

\* TRUE iff decoding the bytes with the codec raises no UnicodeDecodeError.
\* latin1 and ISO-8859-1 name the same codec, which maps every byte.
Decodes(enc, b) ==
    IF enc = "utf-8" THEN Utf8Valid(b)
    ELSE IF enc = "cp1252" THEN Range(b) \cap Cp1252Undefined = {}
    ELSE TRUE

\* TryEncodings without the break of line 28: the last candidate that
\* decodes wins
RECURSIVE TryEncodingsNoBreak(_, _, _)
TryEncodingsNoBreak(b, i, seen) ==
    IF i > Len(encodings) THEN [encoding |-> "", tried |-> seen]
    ELSE LET rest == TryEncodingsNoBreak(b, i + 1, Append(seen, encodings[i]))
         IN  IF Decodes(encodings[i], b) /\ rest.encoding = ""
             THEN [encoding |-> encodings[i], tried |-> rest.tried]
             ELSE rest

\* lines 25-32: the for/else loop from candidate i on.  The result is the
\* encoding read_csv succeeded with ("" when the else branch raises) and the
\* candidates it was called with.
RECURSIVE TryEncodings(_, _, _)
TryEncodings(b, i, seen) ==
    IF i > Len(encodings) THEN [encoding |-> "", tried |-> seen]
    ELSE IF Decodes(encodings[i], b)
         THEN [encoding |-> encodings[i], tried |-> Append(seen, encodings[i])]
         ELSE TryEncodings(b, i + 1, Append(seen, encodings[i]))

\* LoadOutcome without the existence check of lines 17-18
LoadOutcomeUnchecked(e) ==
    IF e.suffix \in ExcelSuffixes
    THEN IF e.corrupt THEN "ReadError" ELSE "ok"
    ELSE IF TryEncodings(e.bytes, 1, <<>>).encoding = "" THEN "ValueError"
    ELSE IF e.bytes = <<>> THEN "EmptyDataError"
    ELSE "ok"

\* lines 15-32: the outcome of the body of the load try block: "ok", or the
\* exception that leaves it.  read_excel raises on a file that is no
\* workbook; read_csv raises EmptyDataError on a file without any bytes.
LoadOutcome(e) ==
    IF ~e.exists THEN "FileNotFoundError"
    ELSE IF e.suffix \in ExcelSuffixes
         THEN IF e.corrupt THEN "ReadError" ELSE "ok"
    ELSE IF TryEncodings(e.bytes, 1, <<>>).encoding = "" THEN "ValueError"
    ELSE IF e.bytes = <<>> THEN "EmptyDataError"
    ELSE "ok"

(***************************************************************************)
(* The table.  df.columns is a sequence of headers; a header is its        *)
(* canonical name and the form it is written in: "canon" (sales), "title"  *)
(* (Sales, Order Date: what the normalisation of line 43 rewrites) or      *)
(* "int" (a header that is a number, not a string).  A row maps canonical  *)
(* names to cells.  A numeric cell is a number ("num"), a text that is no  *)
(* number ("txt") or NaN ("nan"); a date cell is <<y, m, d>> ("date"), a   *)
(* text that is no date ("txt") or NaT ("nat").  Text columns hold integer *)
(* codes whose order is the lexicographic order of the texts.              *)
(***************************************************************************)
Hdr(n, f) == [name |-> n, form |-> f]

Num(n) == [k |-> "num", v |-> n]
Txt == [k |-> "txt", v |-> 0]
NaN == [k |-> "nan", v |-> 0]
Date(y, m, d) == [k |-> "date", v |-> <<y, m, d>>]
TxtDate == [k |-> "txt", v |-> <<0, 0, 0>>]
NaT == [k |-> "nat", v |-> <<0, 0, 0>>]

\* c in df.columns
Has(columns, c) == \E i \in 1..Len(columns) : columns[i] = Hdr(c, "canon")

\* df[c] is a DataFrame, not a Series: the label c occurs twice
Dup(columns, c) ==
    \E i, j \in 1..Len(columns) :
        i # j /\ columns[i] = Hdr(c, "canon") /\ columns[j] = Hdr(c, "canon")

\* df[c] = cells: the column c of every row is set to the cell of its row
SetColumn(rows, c, cells) ==
    [i \in 1..Len(rows) |->
        [x \in DOMAIN rows[i] \cup {c} |-> IF x = c THEN cells[i] ELSE rows[i][x]]]

\* df[c] = ... on the column index: a new label is appended
AddLabel(columns, c) ==
    IF Has(columns, c) THEN columns ELSE Append(columns, Hdr(c, "canon"))

(***************************************************************************)
(* Preparation (lines 41-63).  Each step maps the state of the try block,  *)
(* [columns, rows, raised], to the state after it; a step after a raise    *)
(* does nothing.                                                           *)
(***************************************************************************)
\* line 43: c.strip().lower().replace(' ', '_').replace('-', '_')
Canonical(h) == Hdr(h.name, "canon")

\* line 43: c.strip() raises AttributeError on a header that is no string,
\* and then df.columns is not assigned
NormalizeColumns(s) ==
    IF \E i \in 1..Len(s.columns) : s.columns[i].form = "int"
    THEN [s EXCEPT !.raised = TRUE]
    ELSE [s EXCEPT !.columns = [i \in 1..Len(s.columns) |-> Canonical(s.columns[i])]]

\* pd.to_datetime(errors='coerce') on one cell
ToDatetime(cell) == IF cell.k = "date" THEN cell ELSE NaT

\* pd.to_numeric(errors='coerce') on one cell
ToNumeric(cell) == IF cell.k = "num" THEN cell ELSE NaN

\* lines 46-48 for one date column: pd.to_datetime raises ValueError when
\* df[col] is a DataFrame (the label occurs twice)
ConvertDate(s, col) ==
    IF s.raised \/ ~Has(s.columns, col) THEN s
    ELSE IF Dup(s.columns, col) THEN [s EXCEPT !.raised = TRUE]
    ELSE [s EXCEPT !.rows = SetColumn(s.rows, col,
                     [i \in 1..Len(s.rows) |-> ToDatetime(s.rows[i][col])])]

\* lines 51-54: year, year_month and month_name from order_date
DeriveCalendar(s) ==
    IF s.raised \/ ~Has(s.columns, "order_date") THEN s
    ELSE LET year(r) == IF r["order_date"].k = "date"
                        THEN Num(r["order_date"].v[1]) ELSE NaN
             ym(r) == IF r["order_date"].k = "date"
                      THEN Date(r["order_date"].v[1], r["order_date"].v[2], 1)
                      ELSE NaT
             mn(r) == IF r["order_date"].k = "date"
                      THEN Num(r["order_date"].v[2]) ELSE NaN
             n == Len(s.rows)
             r1 == SetColumn(s.rows, "year", [i \in 1..n |-> year(s.rows[i])])
             r2 == SetColumn(r1, "year_month", [i \in 1..n |-> ym(s.rows[i])])
             r3 == SetColumn(r2, "month_name", [i \in 1..n |-> mn(s.rows[i])])
         IN  [s EXCEPT !.rows = r3,
                       !.columns = AddLabel(AddLabel(AddLabel(s.columns,
                                       "year"), "year_month"), "month_name")]

\* lines 57-60 for one numeric column
ConvertNumeric(s, col) ==
    IF s.raised \/ ~Has(s.columns, col) THEN s
    ELSE [s EXCEPT !.rows = SetColumn(s.rows, col,
                     [i \in 1..Len(s.rows) |-> ToNumeric(s.rows[i][col])])]

\* lines 42-60: the body of the preparation try block
Prepare(d) ==
    LET s0 == [columns |-> d.columns, rows |-> d.rows, raised |-> FALSE]
        s1 == NormalizeColumns(s0)
        s2 == IF s1.raised THEN s1
              ELSE ConvertDate(ConvertDate(s1, "order_date"), "ship_date")
        s3 == DeriveCalendar(s2)
    IN  ConvertNumeric(ConvertNumeric(ConvertNumeric(s3, "sales"), "profit"),
                       "quantity")

(***************************************************************************)
(* Column sums.  Series.sum() skips NaN.  On a column that still holds a   *)
(* text beside its numbers (object dtype: the preparation did not reach    *)
(* its pd.to_numeric) the sum raises TypeError; the tables drawn in Init   *)
(* have a number in every such column.                                     *)
(***************************************************************************)
SumRaises(rows, col) == \E i \in 1..Len(rows) : rows[i][col].k = "txt"

ColumnSum(rows, col) ==
    SeqSum([i \in 1..Len(rows) |->
               IF rows[i][col].k = "num" THEN rows[i][col].v ELSE 0])

(***************************************************************************)
(* KPIs (lines 66-86).  A KPI value is [kind, val]: a number ("num"), a    *)
(* percentage with two decimals ("pct", val in hundredths of a percent),   *)
(* the string "N/A" or, for the quotient of a division by zero, "inf".     *)
(***************************************************************************)
Abs(x) == IF x < 0 THEN 0 - x ELSE x

\* f"{x:.2%}" of x = n / d with d > 0: x * 100 rounded to two decimals,
\* halves to the even neighbour
RoundDiv(n, d) ==
    LET q == n \div d
        r == n % d
    IN  IF 2 * r < d THEN q
        ELSE IF 2 * r > d THEN q + 1
        ELSE IF q % 2 = 0 THEN q ELSE q + 1

PctFormat(p, t) ==
    IF t > 0 THEN RoundDiv(10000 * p, t) ELSE RoundDiv(10000 * (0 - p), 0 - t)

\* ProfitMargin without the guard of line 75: numpy divides by zero
ProfitMarginUnguarded(total_profit, total_sales) ==
    [value |-> IF total_sales = 0
               THEN IF total_profit = 0 THEN [kind |-> "N/A", val |-> 0]
                    ELSE [kind |-> "inf", val |-> 0]
               ELSE [kind |-> "pct", val |-> PctFormat(total_profit, total_sales)],
     divisors |-> <<total_sales>>]

\* lines 75 and 78: the value stored under 'Profit Margin' and the divisors
\* the division was performed with
ProfitMargin(total_profit, total_sales) ==
    [value |-> IF total_sales # 0
               THEN [kind |-> "pct", val |-> PctFormat(total_profit, total_sales)]
               ELSE [kind |-> "N/A", val |-> 0],
     divisors |-> IF total_sales # 0 THEN <<total_sales>> ELSE <<>>]

\* KpiKeys that stores the profit entries whether or not sales is there
KpiItemsProfitAlone(columns, rows) ==
    LET ts == IF Has(columns, "sales")
              THEN <<[key |-> "Total Sales",
                      value |-> [kind |-> "num", val |-> ColumnSum(rows, "sales")]]>>
              ELSE <<>>
    IN  [kpis |-> IF Has(columns, "profit")
                  THEN ts \o <<[key |-> "Total Profit",
                                value |-> [kind |-> "num",
                                           val |-> ColumnSum(rows, "profit")]]>>
                  ELSE ts,
         divisors |-> <<>>, raised |-> FALSE]

\* lines 67-79: the dict kpis (its items in insertion order), the divisors
\* used, and whether the block raised before line 81
KpiItems(columns, rows) ==
    IF ~Has(columns, "sales")
    THEN [kpis |-> <<>>, divisors |-> <<>>, raised |-> FALSE]
    ELSE IF SumRaises(rows, "sales")
    THEN [kpis |-> <<>>, divisors |-> <<>>, raised |-> TRUE]
    ELSE LET total_sales == ColumnSum(rows, "sales")
             ts == <<[key |-> "Total Sales",
                      value |-> [kind |-> "num", val |-> total_sales]]>>
         IN  IF ~Has(columns, "profit")
             THEN [kpis |-> ts, divisors |-> <<>>, raised |-> FALSE]
             ELSE IF SumRaises(rows, "profit")
             THEN [kpis |-> ts, divisors |-> <<>>, raised |-> TRUE]
             ELSE LET total_profit == ColumnSum(rows, "profit")
                      pm == ProfitMargin(total_profit, total_sales)
                  IN  [kpis |-> ts \o
                           <<[key |-> "Total Profit",
                              value |-> [kind |-> "num", val |-> total_profit]],
                             [key |-> "Profit Margin", value |-> pm.value]>>,
                       divisors |-> pm.divisors,
                       raised |-> FALSE]

(***************************************************************************)
(* Aggregations.  A key is a tuple of integers; groupby (sort=True) gives  *)
(* one row per key, in ascending key order, with the sum of the measure.   *)
(***************************************************************************)
RECURSIVE LexLess(_, _)
LexLess(a, b) ==
    IF a = <<>> \/ b = <<>> THEN a = <<>> /\ b # <<>>
    ELSE IF Head(a) # Head(b) THEN Head(a) < Head(b)
    ELSE LexLess(Tail(a), Tail(b))

RECURSIVE SortedKeys(_)
SortedKeys(S) ==
    IF S = {} THEN <<>>
    ELSE LET m == CHOOSE k \in S : \A o \in S : o = k \/ LexLess(k, o)
         IN  <<m>> \o SortedKeys(S \ {m})

\* the group keys in the order the rows first show them (sort=False)
RECURSIVE EncounterKeys(_, _)
EncounterKeys(pairs, seen) ==
    IF pairs = <<>> THEN <<>>
    ELSE IF Head(pairs).key \in seen \/ Head(pairs).null
         THEN EncounterKeys(Tail(pairs), seen)
         ELSE <<Head(pairs).key>> \o
              EncounterKeys(Tail(pairs), seen \cup {Head(pairs).key})

GroupTotal(pairs, key) ==
    SeqSum([i \in 1..Len(pairs) |->
               IF ~pairs[i].null /\ pairs[i].key = key /\ pairs[i].cell.k = "num"
               THEN pairs[i].cell.v ELSE 0])

\* GroupSum with the groups in encounter order instead of key order
GroupSumUnsorted(pairs) ==
    LET keys == EncounterKeys(pairs, {})
    IN  [i \in 1..Len(keys) |-> [key |-> keys[i], sales |-> GroupTotal(pairs, keys[i])]]

\* df.groupby(keys, as_index=False)[measure].sum(): pairs holds, per row,
\* the key, whether the key is null (such rows are dropped) and the cell
GroupSum(pairs) ==
    LET keys == SortedKeys({pairs[i].key : i \in {j \in 1..Len(pairs) : ~pairs[j].null}})
    IN  [i \in 1..Len(keys) |-> [key |-> keys[i], sales |-> GroupTotal(pairs, keys[i])]]

\* sort_values('sales', ascending=False): descending, equal sums in the
\* order they had (insertion of one row into a sorted table, then the sort)
RECURSIVE InsertDesc(_, _)
InsertDesc(sorted, x) ==
    IF sorted = <<>> THEN <<x>>
    ELSE IF Head(sorted).sales >= x.sales
         THEN <<Head(sorted)>> \o InsertDesc(Tail(sorted), x)
         ELSE <<x>> \o sorted

RECURSIVE SortDesc(_)
SortDesc(t) ==
    IF t = <<>> THEN <<>>
    ELSE InsertDesc(SortDesc(SubSeq(t, 1, Len(t) - 1)), t[Len(t)])

\* line 108: the number of rows head() keeps
TopN == 20

\* DataFrame.head(n)
HeadRows(t, n) == IF Len(t) <= n THEN t ELSE SubSeq(t, 1, n)

\* lines 107-108: cat
TopSubcategories(rows) ==
    LET pairs == [i \in 1..Len(rows) |->
                     [key |-> <<rows[i]["category"], rows[i]["sub_category"]>>,
                      null |-> FALSE,
                      cell |-> rows[i]["sales"]]]
    IN  HeadRows(SortDesc(GroupSum(pairs)), TopN)

\* lines 92-95: by_month, with the summed profit beside the summed sales
MonthlyTrend(rows) ==
    LET sales == [i \in 1..Len(rows) |->
                     [key |-> <<rows[i]["year_month"].v[1], rows[i]["year_month"].v[2]>>,
                      null |-> rows[i]["year_month"].k # "date",
                      cell |-> rows[i]["sales"]]]
        profit == [i \in 1..Len(rows) |->
                     [key |-> sales[i].key, null |-> sales[i].null,
                      cell |-> rows[i]["profit"]]]
        s == GroupSum(sales)
        p == GroupSum(profit)
    IN  [i \in 1..Len(s) |->
            [key |-> s[i].key, sales |-> s[i].sales, profit |-> p[i].sales]]

\* line 119: group_cols
GroupCols(columns) ==
    SelectSeq(<<"region", "segment">>, LAMBDA c : Has(columns, c))

\* line 121: reg
RegionSegment(rows, group_cols) ==
    LET pairs == [i \in 1..Len(rows) |->
                     [key |-> [j \in 1..Len(group_cols) |-> rows[i][group_cols[j]]],
                      null |-> FALSE,
                      cell |-> rows[i]["sales"]]]
    IN  GroupSum(pairs)

(***************************************************************************)
(* Charts (lines 89-133): one try block around the three charts.  Each     *)
(* chart maps the state of the block, [cwd, produced, charts, raised], to  *)
(* the state after it; a chart after a raise is not reached.               *)
(***************************************************************************)
MonthlyFile == "ventas_por_mes.html"
SubcategoryFile == "top_subcategorias.html"
RegionFile == "ventas_por_region.html"
DashboardFile == "dashboard_superstore.html"

\* pio.write_html(fig, file=name): raises OSError in a directory that
\* cannot be written
WriteHtml(e, c, name) ==
    IF c.raised THEN c
    ELSE IF ~e.writable THEN [c EXCEPT !.raised = TRUE]
    ELSE [c EXCEPT !.cwd = c.cwd \cup {name},
                   !.produced = Append(c.produced, name)]

\* fig.show(): raises where no renderer can be opened
Show(e, c) ==
    IF c.raised THEN c
    ELSE IF e.show_raises THEN [c EXCEPT !.raised = TRUE]
    ELSE c

\* lines 91-103.  With profit absent line 94 passes profit=None to agg(),
\* which raises TypeError: a named aggregation must be a (column, func) pair
MonthlyChart(e, d, c) ==
    IF c.raised \/ ~(Has(d.columns, "year_month") /\ Has(d.columns, "sales")) THEN c
    ELSE IF ~Has(d.columns, "profit") THEN [c EXCEPT !.raised = TRUE]
    ELSE IF SumRaises(d.rows, "sales") \/ SumRaises(d.rows, "profit")
    THEN [c EXCEPT !.raised = TRUE]
    ELSE LET c1 == [c EXCEPT !.charts.by_month = MonthlyTrend(d.rows),
                             !.charts.made = @ \cup {"by_month"}]
         IN  Show(e, WriteHtml(e, c1, MonthlyFile))

\* lines 106-116
SubcategoryChart(e, d, c) ==
    IF c.raised
       \/ ~(\A x \in {"category", "sub_category", "sales"} : Has(d.columns, x))
    THEN c
    ELSE IF SumRaises(d.rows, "sales") THEN [c EXCEPT !.raised = TRUE]
    ELSE LET c1 == [c EXCEPT !.charts.cat = TopSubcategories(d.rows),
                             !.charts.made = @ \cup {"cat"}]
         IN  Show(e, WriteHtml(e, c1, SubcategoryFile))

\* lines 119-130
RegionChart(e, d, c) ==
    LET group_cols == GroupCols(d.columns)
    IN  IF c.raised \/ ~(group_cols # <<>> /\ Has(d.columns, "sales")) THEN c
        ELSE IF SumRaises(d.rows, "sales") THEN [c EXCEPT !.raised = TRUE]
        ELSE LET c1 == [c EXCEPT !.charts.reg = RegionSegment(d.rows, group_cols),
                                 !.charts.made = @ \cup {"reg"}]
             IN  Show(e, WriteHtml(e, c1, RegionFile))

NoCharts == [by_month |-> <<>>, cat |-> <<>>, reg |-> <<>>, made |-> {}]

\* lines 90-130: the body of the chart try block
Visualize(e, d, files) ==
    LET c0 == [cwd |-> files, produced |-> <<>>, charts |-> NoCharts, raised |-> FALSE]
    IN  RegionChart(e, d, SubcategoryChart(e, d, MonthlyChart(e, d, c0)))

(***************************************************************************)
(* Dashboard (lines 136-182).                                              *)
(***************************************************************************)
\* the orders in which Path('.').glob('*.html') can yield the files: glob
\* yields directory entries in the order of the file system, which is any
Orders(S) ==
    {f \in [1..Cardinality(S) -> S] : \A i, j \in 1..Cardinality(S) : f[i] = f[j] => i = j}

\* line 167: p.stem.replace('_', ' ').title()
ChartName(name) ==
    CASE name = MonthlyFile -> "Ventas Por Mes"
      [] name = SubcategoryFile -> "Top Subcategorias"
      [] name = RegionFile -> "Ventas Por Region"
      [] OTHER -> "Index"

\* lines 141-171: parts, as its sections: the KPI box, then one heading and
\* iframe per file of html_files
Parts(items, html_files) ==
    <<[kind |-> "kpi", items |-> items, title |-> "KPIs Principales", src |-> ""]>>
    \o [i \in 1..Len(html_files) |->
           [kind |-> "chart", items |-> <<>>, title |-> ChartName(html_files[i]),
            src |-> html_files[i]]]

NoDashboard == [written |-> FALSE, parts |-> <<>>]

(***************************************************************************)
(* Inputs.  The script names its dataset in line 15; the model lets that   *)
(* path name a workbook or a delimited-text file, present or not.          *)
(***************************************************************************)
AllNames == <<"order_date", "ship_date", "category", "sub_category", "region",
              "segment", "sales", "quantity", "profit">>

Row(od, cat, sub, reg, seg, sales, profit) ==
    [order_date |-> od, ship_date |-> od, category |-> cat, sub_category |-> sub,
     region |-> reg, segment |-> seg, sales |-> sales, quantity |-> Num(1),
     profit |-> profit]

\* the headers of a table with the columns of present.  Shapes: every header
\* in title form or in canonical form, canonical headers beside a header
\* that is a number, title headers beside a second, canonical order_date
Columns(present, shape) ==
    LET names == SelectSeq(AllNames, LAMBDA n : n \in present)
        form == IF shape \in {"title", "title_dup"} THEN "title" ELSE "canon"
        base == [i \in 1..Len(names) |-> Hdr(names[i], form)]
    IN  IF shape = "canon_int" THEN Append(base, Hdr("2020", "int"))
        ELSE IF shape = "title_dup" /\ "order_date" \in present
        THEN Append(base, Hdr("order_date", "canon"))
        ELSE base

Shapes == {"title", "canon", "canon_int", "title_dup"}

Clean ==
    << Row(Date(2015, 1, 20), 1, 2, 1, 1, Num(100), Num(30)),
       Row(Date(2014, 12, 5), 2, 1, 2, 1, Num(50), Num(0 - 10)),
       Row(Date(2015, 1, 3), 1, 2, 1, 2, Num(25), Num(6)) >>

ZeroSales ==
    << Row(Date(2015, 1, 20), 1, 1, 1, 1, Num(40), Num(7)),
       Row(Date(2014, 12, 5), 1, 1, 2, 2, Num(0 - 40), Num(0)) >>

DirtyBoth ==
    << Row(Date(2015, 1, 20), 1, 1, 1, 1, Num(10), Txt),
       Row(TxtDate, 2, 1, 1, 1, Txt, Num(3)) >>

DirtyProfit ==
    << Row(Date(2015, 1, 20), 1, 1, 1, 1, Num(30), Txt),
       Row(Date(2015, 1, 20), 2, 1, 1, 2, Num(0 - 7), Num(1)) >>

Loss ==
    << Row(Date(2014, 12, 5), 1, 1, 1, 1, Num(20), Num(0 - 10)),
       Row(NaT, 1, 2, 1, 1, Num(13), Num(3)) >>

Datasets == {Clean, ZeroSales, Loss, DirtyBoth, DirtyProfit, <<>>}

\* what the working directory holds before the run
Directories ==
    { {}, {"index.html"}, {MonthlyFile}, {DashboardFile},
      {"index.html", MonthlyFile, DashboardFile} }

Workbook == [exists |-> TRUE, suffix |-> ".xls", corrupt |-> FALSE, bytes |-> <<>>]

Console == [writable : BOOLEAN, stdout_utf8 : BOOLEAN, show_raises : BOOLEAN]

Quiet == [writable |-> TRUE, stdout_utf8 |-> TRUE, show_raises |-> FALSE]

\* the cells of the columns of present, and 0 under a header that is a
\* number; a table without columns has no rows
Project(rows, present, shape) ==
    LET labels == IF shape = "canon_int" THEN present \cup {"2020"} ELSE present
    IN  IF labels = {} THEN <<>>
        ELSE [i \in 1..Len(rows) |->
                 [x \in labels |-> IF x = "2020" THEN Num(0) ELSE rows[i][x]]]

Env(file, present, shape, rows, cwd0, con) ==
    [exists |-> file.exists, suffix |-> file.suffix, corrupt |-> file.corrupt,
     bytes |-> file.bytes, columns |-> Columns(present, shape),
     rows |-> Project(rows, present, shape), cwd0 |-> cwd0,
     writable |-> con.writable, stdout_utf8 |-> con.stdout_utf8,
     show_raises |-> con.show_raises]

\* the schemas: any of the seven columns the stages read, with or without
\* the two columns only the preparation touches
Schemas ==
    { core \cup extra :
        core \in SUBSET {"order_date", "category", "sub_category", "region",
                         "segment", "sales", "profit"},
        extra \in {{}, {"ship_date", "quantity"}} }

Full == Range(AllNames)

\* runs over every schema with every header shape and table; over every
\* schema with every directory and console; and over three schemas with all
\* of these together
PipelineEnvs ==
    { Env(Workbook, present, shape, rows, {}, Quiet) :
        present \in Schemas, shape \in Shapes, rows \in Datasets }
    \cup
    { Env(Workbook, present, "title", Clean, cwd0, con) :
        present \in Schemas, cwd0 \in Directories, con \in Console }
    \cup
    { Env(Workbook, present, shape, rows, cwd0, con) :
        present \in {Full, Full \ {"profit"}, Full \ {"sales"}},
        shape \in Shapes, rows \in Datasets, cwd0 \in Directories, con \in Console }

\* the byte values the delimited-text files are made of: A, and bytes that
\* are a lead byte, a continuation byte or no UTF-8 at all
Bytes == {65, 129, 169, 195, 233}

RECURSIVE ByteStrings(_)
ByteStrings(n) ==
    IF n = 0 THEN {<<>>}
    ELSE LET shorter == ByteStrings(n - 1)
         IN  shorter \cup {Append(b, x) : b \in shorter, x \in Bytes}

Files ==
    [exists : BOOLEAN, suffix : {".xls", ".xlsx"}, corrupt : BOOLEAN, bytes : {<<>>}]
    \cup [exists : BOOLEAN, suffix : {".csv"}, corrupt : {FALSE},
          bytes : ByteStrings(MaxBytes)]

\* runs over every file
LoadEnvs ==
    { Env(file, Full, "title", Clean, cwd0, Quiet) :
        file \in Files, cwd0 \in {{}, {"index.html"}} }

\* generated tables: n groups (category, sub_category), three rows a group
GroupCategory(k) == ((k - 1) % 3) + 1
GroupSubcategory(k) == ((k - 1) \div 3) + 1

GroupValue(pattern, k) ==
    CASE pattern = "equal" -> 10
      [] pattern = "rising" -> k
      [] pattern = "falling" -> 100 - k
      [] OTHER -> (k * 7) % 5

Generated(n, pattern, order) ==
    LET first == [k \in 1..n |->
                    Row(Date(2015, 1, 1), GroupCategory(k), GroupSubcategory(k),
                        1, 1, Num(GroupValue(pattern, k)), Num(1))]
        second == [k \in 1..n |->
                    Row(Date(2015, 2, 1), GroupCategory(k), GroupSubcategory(k),
                        1, 2, IF k % 2 = 0 THEN Num(k % 3) ELSE Txt, Num(0))]
        rows == first \o second
    IN  IF order = "reversed" THEN Reverse(rows)
        ELSE IF order = "rotated" THEN Rotate(rows)
        ELSE rows

AggregationEnvs ==
    { Env(Workbook, Full, "title", Generated(n, pattern, order), {}, Quiet) :
        n \in 0..MaxGroups, pattern \in {"equal", "rising", "falling", "mixed"},
        order \in {"given", "reversed", "rotated"} }

Envs == PipelineEnvs \cup LoadEnvs \cup AggregationEnvs

\* a line on sys.stderr: the text, and the exception str(e) is taken from
Diag(msg, e) == [msg |-> msg, e |-> e]

(***************************************************************************)
(* The run.                                                                *)
(***************************************************************************)
Init ==
    /\ env \in Envs
    /\ pc = "load"
    /\ df = [loaded |-> FALSE, columns |-> <<>>, rows |-> <<>>]
    /\ encoding = ""
    /\ tried = <<>>
    /\ kpis = <<>>
    /\ charts = NoCharts
    /\ cwd = env.cwd0
    /\ produced = <<>>
    /\ dashboard = NoDashboard
    /\ stdout = <<>>
    /\ stderr = <<>>
    /\ entered = <<>>
    /\ divisors = <<>>
    /\ exit_status = -1

\* lines 14-38
LoadStage ==
    /\ pc = "load"
    /\ LET outcome == LoadOutcome(env)
           loop == IF env.exists /\ env.suffix \notin ExcelSuffixes
                   THEN TryEncodings(env.bytes, 1, <<>>)
                   ELSE [encoding |-> "", tried |-> <<>>]
       IN  /\ tried' = loop.tried
           /\ entered' = Append(entered, "load")
           /\ IF outcome = "ok"
              THEN /\ df' = [loaded |-> TRUE, columns |-> env.columns,
                             rows |-> env.rows]
                   /\ encoding' = loop.encoding
                   /\ stdout' = Append(stdout, "Datos cargados correctamente")
                   /\ pc' = "prep"
                   /\ UNCHANGED <<stderr, exit_status>>
              ELSE /\ stderr' = Append(stderr, Diag("Error al cargar los datos", outcome))
                   /\ exit_status' = 1
                   /\ pc' = "exit"
                   /\ UNCHANGED <<df, encoding, stdout>>
    /\ UNCHANGED <<env, kpis, charts, cwd, produced, dashboard, divisors>>

\* lines 41-63
PrepStage ==
    /\ pc = "prep"
    /\ LET s == Prepare(df)
       IN  /\ df' = [df EXCEPT !.columns = s.columns, !.rows = s.rows]
           /\ stderr' = IF s.raised
                        THEN Append(stderr, Diag("Error en la preparacion de datos", "Exception"))
                        ELSE stderr
    /\ entered' = Append(entered, "prep")
    /\ pc' = "kpi"
    /\ UNCHANGED <<env, encoding, tried, kpis, charts, cwd, produced, dashboard,
                   stdout, divisors, exit_status>>

\* lines 66-86
KpiStage ==
    /\ pc = "kpi"
    /\ LET r == KpiItems(df.columns, df.rows)
       IN  /\ kpis' = r.kpis
           /\ divisors' = r.divisors
           /\ stdout' = IF r.raised THEN stdout
                        ELSE Append(stdout, "=== KPIs Principales ===")
                             \o [i \in 1..Len(r.kpis) |-> r.kpis[i].key]
           /\ stderr' = IF r.raised THEN Append(stderr, Diag("Error al calcular KPIs", "Exception"))
                        ELSE stderr
    /\ entered' = Append(entered, "kpi")
    /\ pc' = "viz"
    /\ UNCHANGED <<env, df, encoding, tried, charts, cwd, produced, dashboard,
                   exit_status>>

\* VizStage without its except clause: the exception ends the process
VizStageUncaught ==
    /\ pc = "viz"
    /\ LET c == Visualize(env, df, cwd)
       IN  /\ cwd' = c.cwd
           /\ produced' = c.produced
           /\ charts' = c.charts
           /\ pc' = IF c.raised THEN "exit" ELSE "dash"
           /\ exit_status' = IF c.raised THEN 1 ELSE exit_status
    /\ entered' = Append(entered, "viz")
    /\ UNCHANGED <<env, df, encoding, tried, kpis, dashboard, stdout, stderr,
                   divisors>>

\* lines 89-133
VizStage ==
    /\ pc = "viz"
    /\ LET c == Visualize(env, df, cwd)
       IN  /\ cwd' = c.cwd
           /\ produced' = c.produced
           /\ charts' = c.charts
           /\ stderr' = IF c.raised
                        THEN Append(stderr, Diag("Error al generar visualizaciones", "Exception"))
                        ELSE stderr
    /\ entered' = Append(entered, "viz")
    /\ pc' = "dash"
    /\ UNCHANGED <<env, df, encoding, tried, kpis, dashboard, stdout, divisors,
                   exit_status>>

\* lines 136-182, and the end of the script
DashStage ==
    /\ pc = "dash"
    /\ \E html_files \in Orders(cwd \ {DashboardFile}) :
          IF html_files # <<>>
          THEN IF env.writable
               THEN /\ dashboard' = [written |-> TRUE, parts |-> Parts(kpis, html_files)]
                    /\ cwd' = cwd \cup {DashboardFile}
                    /\ IF env.stdout_utf8
                       THEN /\ stdout' = Append(stdout, "Dashboard creado exitosamente")
                            /\ UNCHANGED stderr
                       ELSE /\ stderr' = Append(stderr, Diag("Error al crear el dashboard", "Exception"))
                            /\ UNCHANGED stdout
               ELSE /\ stderr' = Append(stderr, Diag("Error al crear el dashboard", "Exception"))
                    /\ UNCHANGED <<dashboard, cwd, stdout>>
          ELSE /\ stderr' = Append(stderr, Diag("No se encontraron graficos", ""))
               /\ UNCHANGED <<dashboard, cwd, stdout>>
    /\ entered' = Append(entered, "dash")
    /\ pc' = "done"
    /\ exit_status' = 0
    /\ UNCHANGED <<env, df, encoding, tried, kpis, charts, produced, divisors>>

Next == LoadStage \/ PrepStage \/ KpiStage \/ VizStage \/ DashStage

Spec == Init /\ [][Next]_vars

(***************************************************************************)
(* Properties.                                                             *)
(***************************************************************************)
Stages == <<"load", "prep", "kpi", "viz", "dash">>

Reported(msg) == \E i \in 1..Len(stderr) : stderr[i].msg = msg

KpiKeys == [i \in 1..Len(kpis) |-> kpis[i].key]

AfterKpi == pc \in {"viz", "dash", "done"}

AfterViz == pc \in {"dash", "done"}

\* the file cannot be loaded: it is missing, it is no workbook, no candidate
\* encoding decodes it, or it holds nothing to parse
LoadFails ==
    \/ ~env.exists
    \/ env.suffix \in ExcelSuffixes /\ env.corrupt
    \/ env.suffix \notin ExcelSuffixes
       /\ \A i \in 1..Len(encodings) : ~Decodes(encodings[i], env.bytes)
    \/ env.suffix \notin ExcelSuffixes /\ env.bytes = <<>>

\* C1: a run whose load fails ends with exit status 1 after one diagnostic
\* on the error stream; it entered no later stage, computed no KPI and no
\* chart, and wrote no chart file and no dashboard.
C1_LoadFailureExits ==
    /\ (pc # "load" /\ LoadFails) => ~df.loaded
    /\ (pc # "load" /\ ~df.loaded) =>
          /\ pc = "exit"
          /\ exit_status = 1
          /\ Len(stderr) = 1
          /\ stderr[1].msg = "Error al cargar los datos"
          /\ entered = <<"load">>
          /\ kpis = <<>>
          /\ charts = NoCharts
          /\ produced = <<>>
          /\ cwd = env.cwd0
          /\ ~dashboard.written

C1_Witness ==
    pc = "exit" /\ ~env.exists /\ env.cwd0 # {} /\ exit_status = 1

\* C2: once the load has succeeded the process never exits with a non-zero
\* status; the stages are entered in order, whichever of them raised, and
\* the run stands before the stage after the last one entered until the
\* dashboard stage has ended; a stage that raised is reported on the error
\* stream.
C2_StagesIsolated ==
    df.loaded =>
       /\ pc # "exit"
       /\ exit_status \in {-1, 0}
       /\ entered = SubSeq(Stages, 1, Len(entered))
       /\ (pc = "done") = (entered = Stages)
       /\ (pc = "done") = (exit_status = 0)
       /\ pc = IF Len(entered) = Len(Stages) THEN "done"
                ELSE Stages[Len(entered) + 1]
       /\ (pc \in {"kpi", "viz", "dash", "done"}
             /\ Prepare([columns |-> env.columns, rows |-> env.rows]).raised)
          => Reported("Error en la preparacion de datos")
       /\ (AfterKpi /\ KpiItems(df.columns, df.rows).raised)
          => Reported("Error al calcular KPIs")
       /\ (AfterViz /\ Visualize(env, df, env.cwd0).raised)
          => Reported("Error al generar visualizaciones")

\* every stage after the load raised, and the run still ended normally
C2_Witness ==
    /\ pc = "done"
    /\ exit_status = 0
    /\ Reported("Error en la preparacion de datos")
    /\ Reported("Error al calcular KPIs")
    /\ Reported("Error al generar visualizaciones")
    /\ Reported("Error al crear el dashboard")

\* the state the chart try block starts in
FreshBlock ==
    [cwd |-> env.cwd0, produced |-> <<>>, charts |-> NoCharts, raised |-> FALSE]

\* C3: a chart that, run on its own, writes its file has its file written
\* by the run, whatever happened to the other two charts.
C3_ChartsIsolated ==
    AfterViz =>
       /\ MonthlyFile \in Range(MonthlyChart(env, df, FreshBlock).produced)
             => MonthlyFile \in Range(produced)
       /\ SubcategoryFile \in Range(SubcategoryChart(env, df, FreshBlock).produced)
             => SubcategoryFile \in Range(produced)
       /\ RegionFile \in Range(RegionChart(env, df, FreshBlock).produced)
             => RegionFile \in Range(produced)

KpiValue(key) == kpis[CHOOSE i \in 1..Len(kpis) : kpis[i].key = key].value

\* C4: with sales and profit present, the value stored under 'Profit
\* Margin' is "N/A" when the sales sum is zero, and otherwise the percentage
\* with two decimals nearest to profit / sales; the division is never done
\* with a zero divisor; the value is stored whenever the stage did not raise.
C4_ProfitMargin ==
    (AfterKpi /\ Has(df.columns, "sales") /\ Has(df.columns, "profit")) =>
       LET total_sales == ColumnSum(df.rows, "sales")
           total_profit == ColumnSum(df.rows, "profit")
       IN  /\ 0 \notin Range(divisors)
           /\ ~Reported("Error al calcular KPIs") => "Profit Margin" \in Range(KpiKeys)
           /\ "Profit Margin" \in Range(KpiKeys) =>
                 IF total_sales = 0
                 THEN /\ KpiValue("Profit Margin") = [kind |-> "N/A", val |-> 0]
                      /\ divisors = <<>>
                 ELSE /\ KpiValue("Profit Margin").kind = "pct"
                      /\ 2 * Abs(KpiValue("Profit Margin").val * total_sales
                                 - 10000 * total_profit) <= Abs(total_sales)
                      /\ divisors = <<total_sales>>

\* the sales sum is zero, the profit sum is not, and the margin is "N/A"
C4_Witness ==
    /\ AfterKpi
    /\ Has(df.columns, "sales") /\ Has(df.columns, "profit")
    /\ ColumnSum(df.rows, "sales") = 0
    /\ ColumnSum(df.rows, "profit") # 0
    /\ Len(df.rows) > 0
    /\ "Profit Margin" \in Range(KpiKeys)
    /\ KpiValue("Profit Margin").kind = "N/A"

KeysByAvailability ==
    IF ~Has(df.columns, "sales") THEN <<>>
    ELSE IF ~Has(df.columns, "profit") THEN <<"Total Sales">>
    ELSE <<"Total Sales", "Total Profit", "Profit Margin">>

\* C5 as stated: the keys of kpis are decided by which of sales and profit
\* are columns, and by nothing else.
C5_KeysByAvailabilityAlone ==
    AfterKpi => KpiKeys = KeysByAvailability

\* C5, amended: when the KPI stage ends without raising, the keys of kpis
\* are decided by which of sales and profit are columns: none without sales,
\* Total Sales alone without profit, else Total Sales, Total Profit, Profit
\* Margin in that order.  When the stage raises, kpis keeps the keys stored
\* before the exception: none, or Total Sales alone.
C5_KeysByAvailability ==
    AfterKpi =>
       IF Reported("Error al calcular KPIs")
       THEN /\ KpiKeys \in {<<>>, <<"Total Sales">>}
            /\ Has(df.columns, "sales")
            /\ KpiKeys = <<"Total Sales">> => Has(df.columns, "profit")
       ELSE KpiKeys = KeysByAvailability

\* sales and profit are columns, the profit sum raised, and kpis holds
\* Total Sales alone
C5_Witness ==
    /\ AfterKpi
    /\ Reported("Error al calcular KPIs")
    /\ Has(df.columns, "sales") /\ Has(df.columns, "profit")
    /\ KpiKeys = <<"Total Sales">>
    /\ kpis[1].value.val # 0

\* C6: a run that wrote no chart file writes no dashboard and reports the
\* empty report on the error stream (stated for the directories that can
\* be written, where no failed write stands in the way).
C6_NoChartsNoDashboard ==
    (pc = "done" /\ produced = <<>> /\ env.writable) =>
       /\ ~dashboard.written
       /\ Reported("No se encontraron graficos")

\* C7: a dashboard that is written holds the KPI section and then one chart
\* section per chart file this run wrote, in the order they were written.
C7_DashboardMatchesProduced ==
    dashboard.written =>
       /\ Len(dashboard.parts) = 1 + Len(produced)
       /\ dashboard.parts[1].kind = "kpi"
       /\ \A i \in 1..Len(produced) :
             /\ dashboard.parts[i + 1].kind = "chart"
             /\ dashboard.parts[i + 1].src = produced[i]

\* C8: for a delimited-text file the candidates are tried in the order
\* utf-8, latin1, ISO-8859-1, cp1252; every candidate tried before the last
\* failed to decode the bytes and none is tried after one that decodes; the
\* encoding of a loaded file is the last one tried; the load fails with the
\* encoding-undetermined error only when no candidate decodes the bytes;
\* bytes that are well-formed UTF-8 load as utf-8 and all others as latin1.
C8_EncodingOrder ==
    (pc # "load" /\ env.exists /\ env.suffix \notin ExcelSuffixes) =>
       LET order == <<"utf-8", "latin1", "ISO-8859-1", "cp1252">>
           n == Len(tried)
       IN  /\ n >= 1
           /\ n <= 4
           /\ tried = SubSeq(order, 1, n)
           /\ \A i \in 1..(n - 1) : ~Decodes(tried[i], env.bytes)
           /\ df.loaded =>
                 /\ encoding = tried[n]
                 /\ Decodes(encoding, env.bytes)
                 /\ encoding = IF Utf8Valid(env.bytes) THEN "utf-8" ELSE "latin1"
           /\ ~df.loaded =>
                 /\ encoding = ""
                 /\ stderr[1].e \in {"ValueError", "EmptyDataError"}
                 /\ stderr[1].e = "ValueError" =>
                       \A i \in 1..4 : ~Decodes(order[i], env.bytes)

\* bytes that are Latin-1 text and no UTF-8 were loaded with latin1
C8_Witness ==
    /\ df.loaded
    /\ env.suffix = ".csv"
    /\ 233 \in Range(env.bytes)
    /\ ~Utf8Valid(env.bytes)
    /\ tried = <<"utf-8", "latin1">>
    /\ encoding = "latin1"

Ascending(t) == \A i, j \in 1..Len(t) : i < j => LexLess(t[i].key, t[j].key)

\* the rows of the month <<y, m>>
MonthRows(key) ==
    SelectSeq(df.rows, LAMBDA r : r["year_month"].k = "date"
                                  /\ <<r["year_month"].v[1], r["year_month"].v[2]>> = key)

\* C9: where the chart files can be written, the monthly trend is computed
\* and its file written whenever year_month and sales are columns, with or
\* without profit: one row per month, ascending, with the summed sales.  It
\* is skipped when year_month or sales is no column.
C9_MonthlyTrendWithoutProfit ==
    (AfterViz /\ env.writable) =>
       IF Has(df.columns, "year_month") /\ Has(df.columns, "sales")
       THEN /\ "by_month" \in charts.made
            /\ MonthlyFile \in Range(produced)
            /\ Ascending(charts.by_month)
            /\ \A i \in 1..Len(charts.by_month) :
                  charts.by_month[i].sales
                     = ColumnSum(MonthRows(charts.by_month[i].key), "sales")
       ELSE /\ "by_month" \notin charts.made
            /\ MonthlyFile \notin Range(produced)

GroupKeys == {<<df.rows[i]["category"], df.rows[i]["sub_category"]>> : i \in 1..Len(df.rows)}

GroupRows(key) ==
    SelectSeq(df.rows, LAMBDA r : <<r["category"], r["sub_category"]>> = key)

\* C10: the top-subcategories table has one row per (category,
\* sub_category) group with the group's summed sales; it holds the 20
\* groups of largest sum when there are more than 20 and all of them
\* otherwise; it is in descending order of the sum; and it is the same
\* table for the rows in reverse and in rotated order.
C10_TopSubcategories ==
    (AfterViz /\ "cat" \in charts.made) =>
       LET cat == charts.cat
           n == Len(cat)
           kept == {cat[i].key : i \in 1..n}
       IN  /\ n <= 20
           /\ n = IF Cardinality(GroupKeys) > 20 THEN 20 ELSE Cardinality(GroupKeys)
           /\ Cardinality(kept) = n
           /\ kept \subseteq GroupKeys
           /\ \A i \in 1..n : cat[i].sales = ColumnSum(GroupRows(cat[i].key), "sales")
           /\ \A i, j \in 1..n : i < j => cat[i].sales >= cat[j].sales
           /\ \A k \in GroupKeys \ kept :
                 \A i \in 1..n : ColumnSum(GroupRows(k), "sales") <= cat[i].sales
           /\ cat = TopSubcategories(Reverse(df.rows))
           /\ cat = TopSubcategories(Rotate(df.rows))

\* more than 20 groups, several of them with equal sums, and 20 rows kept
C10_Witness ==
    /\ AfterViz
    /\ "cat" \in charts.made
    /\ Cardinality(GroupKeys) > 20
    /\ Len(charts.cat) = 20
    /\ \E i \in 1..19 : charts.cat[i].sales = charts.cat[i + 1].sales
    /\ \E i \in 1..19 : charts.cat[i].sales > charts.cat[i + 1].sales

====
